---- MODULE Spec2Model ----
(***************************************************************************)
(* NetworkMonitor (network_monitor.py) and NetworkMonitorWindows           *)
(* (network_monitor_windows.py): the measurement scheduler, the server     *)
(* selection engine and the two CSV tables.                                *)
(*                                                                         *)
(* One monitoring process is modelled.  `variant` fixes which of the two   *)
(* monitor classes the process runs.  `pc` is the place where the single   *)
(* thread of the process is blocked: in an external probe (subprocess.run),*)
(* in time.sleep, or in main before the command is chosen ("idle").  A     *)
(* process runs one command: a public method of the monitor, invoked by    *)
(* main or by another user of the class.  The signal handler is the only   *)
(* code that runs while the thread is blocked.                             *)
(***************************************************************************)
EXTENDS Integers, Sequences, FiniteSets, TLC

(* ------------------------------ bounds -------------------------------- *)
\* number of server ids the catalog may list
MaxServers == 3
\* rows a process may append to the throughput table (probes fail beyond it)
MaxSpeedRows == 1
\* data rows the latency table may reach (probes fail beyond it)
MaxPingRows == 3
\* largest interval_minutes run_continuous is called with
MaxIntervalMinutes == 2
\* time granularity: steps of the clock in one minute
StepsPerMinute == 2
\* largest max_servers_to_test passed to find_best_server
MaxK == 3
\* data rows of a table file the dashboard is asked to read
MaxTableRows == 3
MaxSamples == 2

\* interval_seconds = interval_minutes * 60, in steps of the clock
Intervals == { m * StepsPerMinute : m \in 1..MaxIntervalMinutes }

\* ids main may be given with --server-id
PinnedIds == {2}

(* ------------------------- program constants -------------------------- *)
\* time.sleep(60) of the error path, in steps of the clock
Cooldown == StepsPerMinute
\* default of find_best_server(max_servers_to_test=5)
DefaultMaxServersToTest == 5

NoServer == 0
\* a table that does not exist on disk
NoFile == << <<"<absent>">> >>
ServerIds == 1..MaxServers

ping_targets == <<"8.8.8.8", "1.1.1.1", "208.67.222.222">>

(* --------------------------- probe outcomes --------------------------- *)
\* subprocess.run of an external probe: exit 0 with usable output; exit
\* code # 0; an exception raised by subprocess.run itself ("timeout":
\* TimeoutExpired, or FileNotFoundError when the executable is missing);
\* exit 0 with output that json.loads rejects or that lacks a key
ProbeFailures == {"nonzero", "timeout", "unparsable"}
ProbeOutcomes == {"ok"} \cup ProbeFailures
\* the latency probe prints text: exit 0 without any 'time=' sample
PingOutcomes == {"ok", "nonzero", "timeout", "nosamples"}

\* what a benchmark probe can report: bandwidth in bytes/s, ping latency
\* in thousandths of a millisecond
BenchOutputs ==
    { [bandwidth |-> 1250000, latency |-> 0],
      [bandwidth |-> 3250000, latency |-> 10000],
      [bandwidth |-> 3375000, latency |-> 100000] }

\* a probe that printed no usable JSON
NoOutput == [bandwidth |-> 0, latency |-> 0]

\* the benchmark outputs, and one whose figures are not whole hundredths:
\* 10.004 Mbps at 10.06 ms
ScoreOutputs == BenchOutputs \cup { [bandwidth |-> 1250500, latency |-> 10060] }

(* ------------------------------ CSV schema ---------------------------- *)
\* header written by NetworkMonitor._init_csv_files
LinuxSpeedHeader ==
    << "timestamp", "download_mbps", "upload_mbps",
       "idle_latency_ms", "idle_jitter_ms", "idle_low_ms", "idle_high_ms",
       "download_latency_ms", "download_jitter_ms", "download_low_ms", "download_high_ms",
       "upload_latency_ms", "upload_jitter_ms", "upload_low_ms", "upload_high_ms",
       "packet_loss_percent", "download_bytes", "upload_bytes",
       "server_name", "server_location", "server_id", "isp", "external_ip", "result_url" >>

\* header written by NetworkMonitorWindows._init_csv_files
WindowsSpeedHeader ==
    << "timestamp", "download_mbps", "upload_mbps", "ping_ms",
       "server_name", "server_location", "server_id", "isp", "external_ip",
       "idle_latency_ms", "idle_jitter_ms",
       "download_latency_low_ms", "download_latency_high_ms", "download_latency_iqm_ms", "download_jitter_ms",
       "upload_latency_low_ms", "upload_latency_high_ms", "upload_latency_iqm_ms", "upload_jitter_ms",
       "packet_loss_percent", "download_bytes", "upload_bytes", "result_url" >>

\* header of the throughput table of the earlier version: eight columns,
\* no server id (network_monitor_windows.py:128, "old format has 8 columns")
OldSpeedHeader ==
    << "timestamp", "download_mbps", "upload_mbps", "ping_ms",
       "server_name", "server_location", "isp", "external_ip" >>

\* a row of the earlier version, every field named by its column
OldSpeedRow == OldSpeedHeader

\* a row of the earlier version whose line was cut short
ShortSpeedRow == SubSeq(OldSpeedRow, 1, 7)

PingHeader ==
    << "timestamp", "target", "avg_latency_ms",
       "min_latency_ms", "max_latency_ms", "packet_loss_percent" >>

\* the row run_speedtest hands to writer.writerow: every field is named by
\* the key of speed_data whose value it carries
SpeedRow ==
    << "timestamp", "download_mbps", "upload_mbps", "ping_ms",
       "server_name", "server_location", "server_id", "isp", "external_ip",
       "idle_latency_ms", "idle_jitter_ms",
       "download_latency_low_ms", "download_latency_high_ms", "download_latency_iqm_ms", "download_jitter_ms",
       "upload_latency_low_ms", "upload_latency_high_ms", "upload_latency_iqm_ms", "upload_jitter_ms",
       "packet_loss_percent", "download_bytes", "upload_bytes", "result_url" >>

\* a row an earlier run of the same monitor appended
EarlierSpeedRow == [SpeedRow EXCEPT ![1] = "earlier timestamp"]

\* the row run_all_ping_tests writes for one target
PingRow(target) ==
    << "timestamp", target, "avg_latency_ms",
       "min_latency_ms", "max_latency_ms", "packet_loss_percent" >>

(* --------------------------- output of ping --------------------------- *)
\* a reply line of the ping output.  "eq": `time=` followed by a number,
\* ms thousandths of a millisecond; "lt": `time<1ms`, which only the Windows
\* ping prints; "bad": `time=` followed by something float() rejects
ReplyLines ==
    { [kind |-> "eq", ms |-> 1000], [kind |-> "eq", ms |-> 12345],
      [kind |-> "lt", ms |-> 0], [kind |-> "bad", ms |-> 0] }

\* the statistics line as its comma-separated fields, each a number and the
\* text that follows it.  iputils prints
\*   20 packets transmitted, 18 received, 10% packet loss, time 19029ms
\* and, when ICMP errors came back,
\*   20 packets transmitted, 18 received, +2 errors, 10% packet loss, time 19029ms
\* Windows prints  Packets: Sent = 20, Received = 18, Lost = 2 (10% loss),
\* whose last field is given here by its percentage
SummaryLines ==
    { <<>>,
      << [num |-> 20, text |-> " packets transmitted"], [num |-> 18, text |-> " received"],
         [num |-> 10, text |-> "% packet loss"], [num |-> 19029, text |-> "ms"] >>,
      << [num |-> 20, text |-> " packets transmitted"], [num |-> 18, text |-> " received"],
         [num |-> 2, text |-> " errors"],
         [num |-> 10, text |-> "% packet loss"], [num |-> 19029, text |-> "ms"] >>,
      << [num |-> 20, text |-> "Sent"], [num |-> 18, text |-> "Received"],
         [num |-> 10, text |-> "% loss)"] >> }

\* the field texts in which a '%' follows the number at once, so that the
\* text before the '%' is a number float() accepts
PercentTexts == {"% packet loss", "% loss)"}

NoStdout == [replies |-> <<>>, summary |-> <<>>]
NoPingData == [target |-> "none", avg_latency_ms |-> 0, min_latency_ms |-> 0,
               max_latency_ms |-> 0, packet_loss_percent |-> 0]

VARIABLES
    variant,                \* "linux": NetworkMonitor, "windows": NetworkMonitorWindows
    pc,                     \* where the thread is
    op,                     \* the public method the caller invoked
    running,                \* self.running
    preferred_server_id,    \* self.preferred_server_id (NoServer: None)
    server_test_results,    \* self.server_test_results: id -> performance
    best_server_cache_file, \* best_server.json on disk
    speed_csv,              \* speed_tests.csv: sequence of rows, header first
    speed_bak,              \* speed_tests.bak written by the Windows migration
    ping_csv,               \* ping_tests.csv
    force_retest,           \* argument of the find_best_server in progress
    max_servers_to_test,    \* argument of the find_best_server in progress
    servers,                \* find_best_server: servers
    servers_to_test,        \* find_best_server: servers_to_test
    bench_i,                \* find_best_server: position of the for loop
    test_results,           \* find_best_server: test_results
    server_id,              \* run_speedtest: server_id
    ping_i,                 \* run_all_ping_tests: position of the for loop
    interval,               \* run_continuous: interval_seconds
    sleep_left,             \* steps of the clock left of the sleep in progress
    retval,                 \* value returned by the last completed method
    pre,                    \* observation: selection state and table sizes at the call / cycle start
    list_log,               \* observation: listing probes of the current call
    bench_log,              \* observation: benchmark probes of the current call
    speed_log,              \* observation: throughput probes of the current call / cycle
    ping_log,               \* observation: latency probes of the current call / cycle
    dash_table,             \* dashboard: data rows of the table file it is asked to read
    dash_reader,            \* dashboard: the reader that serves the request in progress
    dash_pc,                \* dashboard: where the request handler is
    dash_i,                 \* dashboard: rows DictReader has handed out
    dash_data,              \* dashboard: data, the entries collected so far (by row number)
    dash_status,            \* dashboard: the status serve_status has sent
    ping_stdout,            \* run_ping_test: result.stdout of the ping command
    ping_data               \* run_ping_test: the ping_data it returned (NoPingData: None)

vars == << variant, pc, op, running, preferred_server_id, server_test_results,
           best_server_cache_file, speed_csv, speed_bak, ping_csv, force_retest, max_servers_to_test,
           servers, servers_to_test, bench_i, test_results, server_id, ping_i, interval,
           sleep_left, retval, pre, list_log, bench_log, speed_log, ping_log,
           dash_table, dash_reader, dash_pc, dash_i, dash_data, dash_status,
           ping_stdout, ping_data >>

selVars == << preferred_server_id, server_test_results, best_server_cache_file >>
findVars == << force_retest, max_servers_to_test, servers, servers_to_test, bench_i, test_results >>
logVars == << list_log, bench_log, speed_log, ping_log >>
dashVars == << dash_table, dash_reader, dash_pc, dash_i, dash_data, dash_status >>
parseVars == << ping_stdout, ping_data >>
monitorVars == << variant, pc, op, running, selVars, speed_csv, speed_bak, ping_csv,
                  findVars, server_id, ping_i, interval, sleep_left, retval, pre, logVars,
                  parseVars >>

(* ------------------------------ helpers ------------------------------- *)
Min(a, b) == IF a < b THEN a ELSE b

\* Python round(x, 2) of a value given in millionths: the result in
\* hundredths, ties to even
Round2(x) ==
    LET q == x \div 10000
        r == x % 10000
    IN  IF r > 5000 THEN q + 1
        ELSE IF r < 5000 THEN q
        ELSE IF q % 2 = 0 THEN q ELSE q + 1

NoPerf == [server_id |-> NoServer, download_mbps |-> 0, ping_ms |-> 0, score |-> 0]
EmptyResults == [s \in ServerIds |-> NoPerf]

Range(s) == { s[i] : i \in 1..Len(s) }

\* all sequences without repetition over S
RECURSIVE DistinctSeqs(_)
DistinctSeqs(S) ==
    {<<>>} \cup UNION { { <<x>> \o t : t \in DistinctSeqs(S \ {x}) } : x \in S }

\* what `speedtest --servers` can list: the catalog's servers in any order
Listings == DistinctSeqs(ServerIds)

\* the `distance` the catalog reports for a server: the servers are
\* numbered by their distance, server 1 is the nearest
Distance(id) == id

(* ------------------------- server performance ------------------------- *)
\* test_server_performance: the performance dict built from the probe's
\* JSON; download_mbps, ping_ms and score are in hundredths
Performance(id, out) ==
    LET download_mbps == out.bandwidth * 8      \* millionths of Mbps
        ping_ms       == out.latency * 1000     \* millionths of ms
        score         == download_mbps - (ping_ms \div 10)
    IN  [ server_id     |-> id,
          download_mbps |-> Round2(download_mbps),
          ping_ms       |-> Round2(ping_ms),
          score         |-> Round2(score) ]

\* server_optimizer.py: run_speedtest_with_server returns the rounded
\* figures and main scores them, `result['download_mbps'] -
\* (result['ping_ms'] / 10)`, then rounds the score
OptimizerResult(id, out) ==
    LET result == [ download_mbps |-> Round2(out.bandwidth * 8),
                    ping_ms       |-> Round2(out.latency * 1000) ]
        score  == result.download_mbps * 10000 - ((result.ping_ms * 10000) \div 10)
    IN  [ server_id     |-> id,
          download_mbps |-> result.download_mbps,
          ping_ms       |-> result.ping_ms,
          score         |-> Round2(score) ]

\* fault: an unstable sort that puts x before the elements of equal score
InsertByScore_TieLast(sorted, x) ==
    LET n == Cardinality({ i \in 1..Len(sorted) : sorted[i].score > x.score })
    IN  SubSeq(sorted, 1, n) \o <<x>> \o SubSeq(sorted, n + 1, Len(sorted))

\* one insertion of list.sort(key=score, reverse=True): the sort is stable,
\* so x goes behind every element whose score is not smaller
InsertByScore(sorted, x) ==
    LET n == Cardinality({ i \in 1..Len(sorted) : sorted[i].score >= x.score })
    IN  SubSeq(sorted, 1, n) \o <<x>> \o SubSeq(sorted, n + 1, Len(sorted))

RECURSIVE SortByScore(_)
SortByScore(s) ==
    IF s = <<>> THEN <<>>
    ELSE InsertByScore(SortByScore(SubSeq(s, 1, Len(s) - 1)), s[Len(s)])

\* _save_best_server_cache: the JSON document written to best_server.json
\* (last_updated is not modelled); content "object": the file holds a JSON
\* object
SavedCache(id, results) ==
    [exists |-> TRUE, content |-> "object", server_id |-> id, test_results |-> results]

\* best_server.json does not exist
NoCache ==
    [exists |-> FALSE, content |-> "object", server_id |-> NoServer,
     test_results |-> EmptyResults]

\* _save_best_server_cache: best_server.json after the call.  open() or
\* json.dump may raise (write_ok = FALSE); the `except Exception` logs a
\* warning and the file stays as it was
SaveBestServerCache(file, id, results, write_ok) ==
    IF write_ok THEN SavedCache(id, results) ELSE file

\* fault: open, json.load and cache_data.get are outside the try, the
\* values of the file are taken as found
LoadBestServerCache_Unguarded(file) ==
    [preferred_server_id |-> file.server_id,
     server_test_results |-> file.test_results]

\* _load_best_server_cache: what a process reads from best_server.json at
\* start; when the file cannot be opened ("unreadable"), json.load rejects
\* it ("not_json") or it holds no JSON object ("not_object", .get raises
\* AttributeError) the `except Exception` leaves the two fields as
\* __init__ set them
LoadBestServerCache(file) ==
    IF file.exists /\ file.content = "object"
    THEN [preferred_server_id |-> file.server_id,
          server_test_results |-> file.test_results]
    ELSE [preferred_server_id |-> NoServer, server_test_results |-> EmptyResults]

(* ----------------------------- migration ------------------------------ *)
PadTo(row, n) == row \o [i \in 1..(IF Len(row) < n THEN n - Len(row) ELSE 0) |-> ""]

\* fault: the table is brought to the new format before every append,
\* whatever its header
EnsureCsvHasServerId_Always(file) ==
    IF file = NoFile THEN file
    ELSE [i \in 1..Len(file) |->
             IF i = 1 THEN LinuxSpeedHeader
             ELSE PadTo(file[i], Len(LinuxSpeedHeader))]

\* NetworkMonitor._ensure_csv_has_server_id
EnsureCsvHasServerId(file) ==
    IF file = NoFile THEN file
    ELSE LET headers == IF file = <<>> THEN <<"">> ELSE file[1]
             needs_update == \/ Len(headers) < Len(LinuxSpeedHeader)
                             \/ "idle_latency_ms" \notin Range(headers)
         IN  IF needs_update
             THEN [i \in 1..Len(file) |->
                      IF i = 1 THEN LinuxSpeedHeader
                      ELSE PadTo(file[i], Len(LinuxSpeedHeader))]
             ELSE file

\* the rows NetworkMonitorWindows._migrate_csv_if_needed writes back
RECURSIVE MigratedRows(_)
MigratedRows(rows) ==
    IF rows = <<>> THEN <<>>
    ELSE LET row == rows[1]
             migrated_row == (IF Len(row) >= 9 THEN SubSeq(row, 1, 9) ELSE row \o <<"">>)
                             \o [i \in 1..14 |-> "0"]
         IN  (IF Len(row) >= 8 THEN <<migrated_row>> ELSE <<>>)
             \o MigratedRows(Tail(rows))

\* fault: the header test also takes the current header for an old one
MigrateCsvIfNeeded_CurrentToo(file, bak) ==
    IF file = <<>> THEN [csv |-> file, bak |-> bak]
    ELSE IF Len(file[1]) <= 23
         THEN [csv |-> <<WindowsSpeedHeader>> \o MigratedRows(Tail(file)), bak |-> file]
         ELSE [csv |-> file, bak |-> bak]

\* NetworkMonitorWindows._migrate_csv_if_needed: the table and the backup
\* after the call; an empty file makes next(reader) raise, which is caught
MigrateCsvIfNeeded(file, bak) ==
    IF file = <<>> THEN [csv |-> file, bak |-> bak]
    ELSE IF Len(file[1]) < 23
         THEN [csv |-> <<WindowsSpeedHeader>> \o MigratedRows(Tail(file)), bak |-> file]
         ELSE [csv |-> file, bak |-> bak]

(* ---------------------------- initial state --------------------------- *)
\* best_server.json as an earlier process may have left it
InitialCaches ==
    { NoCache,
      SavedCache(1, [EmptyResults EXCEPT ![1] =
                        Performance(1, [bandwidth |-> 1250000, latency |-> 0])]) }

\* a server_id that is no server id: text, a list, a negative number
InvalidId == -1

\* best_server.json as a crash, an editor or another program may have left
\* it: missing, not readable, not JSON, JSON but no object, and an object
\* whose server_id is no server id
BrokenCaches ==
    { NoCache,
      [SavedCache(1, EmptyResults) EXCEPT !.content = "unreadable"],
      [SavedCache(1, EmptyResults) EXCEPT !.content = "not_json"],
      [SavedCache(1, EmptyResults) EXCEPT !.content = "not_object"],
      SavedCache(InvalidId, EmptyResults) }

NoRet == [fn |-> "none", val |-> 0]
NoPre == [pref |-> NoServer, results |-> EmptyResults, file |-> NoCache, speed |-> 0, ping |-> 0]

\* speed_tests.csv as the earlier version may have left it
OldSpeedFiles ==
    { <<OldSpeedHeader>>,
      <<OldSpeedHeader, OldSpeedRow>>,
      <<OldSpeedHeader, OldSpeedRow, ShortSpeedRow>> }

\* the process before __init__, over a data directory whose throughput
\* table is one of `files`
InitWith(files, tables, caches) ==
    /\ variant \in {"linux", "windows"}
    /\ dash_table \in tables
    /\ dash_reader = "none"
    /\ dash_pc = "idle"
    /\ dash_i = 0
    /\ dash_data = <<>>
    /\ dash_status = [total_speed_tests |-> 0, total_ping_tests |-> 0]
    /\ ping_stdout = NoStdout
    /\ ping_data = NoPingData
    /\ speed_csv \in files
    /\ pc = "new"
    /\ op = "none"
    /\ running = TRUE
    /\ preferred_server_id = NoServer
    /\ server_test_results = EmptyResults
    /\ best_server_cache_file \in (IF variant = "linux" THEN caches ELSE {NoCache})
    /\ speed_bak = NoFile
    /\ ping_csv = NoFile
    /\ force_retest = FALSE
    /\ max_servers_to_test = 0
    /\ servers = <<>>
    /\ servers_to_test = <<>>
    /\ bench_i = 0
    /\ test_results = <<>>
    /\ server_id = NoServer
    /\ ping_i = 0
    /\ interval = 0
    /\ sleep_left = 0
    /\ retval = NoRet
    /\ pre = NoPre
    /\ list_log = <<>>
    /\ bench_log = <<>>
    /\ speed_log = <<>>
    /\ ping_log = <<>>

\* a fresh data directory
\* the same over the caches an earlier process may have left
InitOver(files, tables) == InitWith(files, tables, InitialCaches)

Init == InitOver({NoFile}, {<<>>})

\* a data directory that holds the throughput table of the earlier version
StoreInit == InitOver(OldSpeedFiles, {<<>>})

(* ----------------------------- construction --------------------------- *)
\* _init_csv_files of the variant: the throughput table after the call
InitSpeedCsv ==
    IF speed_csv = NoFile
    THEN [csv |-> <<(IF variant = "linux" THEN LinuxSpeedHeader ELSE WindowsSpeedHeader)>>,
          bak |-> speed_bak]
    ELSE IF variant = "windows" THEN MigrateCsvIfNeeded(speed_csv, speed_bak)
         ELSE [csv |-> speed_csv, bak |-> speed_bak]

\* main up to the choice of the command: __init__ (running flag, the two
\* tables, the selection cache) and then --server-id, which pins an id in
\* memory (args_server_id = NoServer: the option is not given).  The
\* Windows monitor has no server selection.
Construct(args_server_id) ==
    /\ pc = "new"
    /\ variant = "windows" => args_server_id = NoServer
    /\ pc' = "idle"
    /\ running' = TRUE
    /\ speed_csv' = InitSpeedCsv.csv
    /\ speed_bak' = InitSpeedCsv.bak
    /\ ping_csv' = IF ping_csv = NoFile THEN <<PingHeader>> ELSE ping_csv
    /\ preferred_server_id' =
          IF args_server_id # NoServer THEN args_server_id
          ELSE IF variant = "linux"
          THEN LoadBestServerCache(best_server_cache_file).preferred_server_id
          ELSE NoServer
    /\ server_test_results' =
          IF variant = "linux"
          THEN LoadBestServerCache(best_server_cache_file).server_test_results
          ELSE EmptyResults
    /\ UNCHANGED << dashVars, parseVars, variant, op, best_server_cache_file, findVars, server_id, ping_i,
                    interval, sleep_left, retval, pre, logVars >>

\* fault: the handler stores a closing latency row itself, while the
\* interrupted thread may be in the middle of a probe or an append
SignalHandler_AppendsRow ==
    /\ pc \notin {"new", "done", "stopped", "raised"}
    /\ running
    /\ running' = FALSE
    /\ ping_csv' = Append(ping_csv, PingRow(ping_targets[1]))
    /\ UNCHANGED << dashVars, parseVars, variant, pc, op, selVars, speed_csv, speed_bak, findVars,
                    server_id, ping_i, interval, sleep_left, retval, pre, logVars >>

\* _signal_handler (and the Windows console handler): SIGINT / SIGTERM
\* delivered while the process lives
SignalHandler ==
    /\ pc \notin {"new", "done", "stopped", "raised"}
    /\ running
    /\ running' = FALSE
    /\ UNCHANGED << dashVars, parseVars, variant, pc, op, selVars, speed_csv, speed_bak, ping_csv, findVars,
                    server_id, ping_i, interval, sleep_left, retval, pre, logVars >>

Snapshot ==
    [ pref |-> preferred_server_id, results |-> server_test_results,
      file |-> best_server_cache_file,
      speed |-> Len(speed_csv), ping |-> Len(ping_csv) ]

(* -------------------------- find_best_server -------------------------- *)
\* fault: run_speedtest gives up when find_best_server returns None
FbsReturn_NoneSkips(v) ==
    IF op = "find_best_server"
    THEN /\ pc' = "done"
         /\ retval' = [fn |-> "find_best_server", val |-> v]
         /\ server_id' = server_id
    ELSE /\ pc' = IF v = NoServer THEN "done" ELSE "speed_probe"
         /\ retval' = IF v = NoServer THEN [fn |-> "run_speedtest", val |-> 0] ELSE retval
         /\ server_id' = v

\* return of find_best_server: to the caller of the public method, or
\* into run_speedtest, which takes the value as its server_id
FbsReturn(v) ==
    IF op = "find_best_server"
    THEN /\ pc' = "done"
         /\ retval' = [fn |-> "find_best_server", val |-> v]
         /\ server_id' = server_id
    ELSE /\ pc' = "speed_probe"
         /\ retval' = retval
         /\ server_id' = v

\* fault: the cache test is missing, every call benchmarks
UseCached_NeverHit(force) == FALSE

\* `if not force_retest and self.preferred_server_id`
UseCached(force) == ~force /\ preferred_server_id # NoServer

\* fault: the listing is not cut to max_servers_to_test
ServersToTest_All(all_servers, k) == all_servers

\* servers[:max_servers_to_test]
ServersToTest(all_servers, k) == SubSeq(all_servers, 1, Min(k, Len(all_servers)))

\* fault: the result of a failed benchmark is stored as well
RecordResult_Always(results, id, outcome, performance) ==
    [results EXCEPT ![id] = performance]

\* self.server_test_results after one benchmark: only a performance that
\* was measured is stored
RecordResult(results, id, outcome, performance) ==
    IF outcome = "ok" THEN [results EXCEPT ![id] = performance] ELSE results

\* find_best_server(max_servers_to_test=k, force_retest=force), called by
\* main (--find-best-server) or by any user of the class: the cache test
CallFindBestServer(k, force) ==
    /\ pc = "idle"
    /\ variant = "linux"
    /\ op' = "find_best_server"
    /\ pre' = Snapshot
    /\ list_log' = <<>>
    /\ bench_log' = <<>>
    /\ speed_log' = <<>>
    /\ ping_log' = <<>>
    /\ force_retest' = force
    /\ max_servers_to_test' = k
    /\ servers' = <<>>
    /\ servers_to_test' = <<>>
    /\ bench_i' = 0
    /\ test_results' = <<>>
    /\ IF UseCached(force)
       THEN /\ pc' = "done"
            /\ retval' = [fn |-> "find_best_server", val |-> preferred_server_id]
       ELSE /\ pc' = "fbs_list"
            /\ retval' = NoRet
    /\ UNCHANGED << dashVars, parseVars, variant, running, selVars, speed_csv, speed_bak, ping_csv, server_id,
                    ping_i, interval, sleep_left >>

\* get_available_servers returns to find_best_server: the listing probe has
\* ended with `outcome` and, when it worked, reported `listing`
GetAvailableServers(outcome, listing) ==
    /\ pc = "fbs_list"
    /\ list_log' = Append(list_log, outcome)
    /\ servers' = IF outcome = "ok" THEN listing ELSE <<>>
    /\ servers_to_test' = ServersToTest(servers', max_servers_to_test)
    /\ test_results' = <<>>
    /\ IF servers_to_test' = <<>>
       THEN /\ bench_i' = 0
            /\ FbsReturn(NoServer)
       ELSE /\ bench_i' = 1
            /\ pc' = "fbs_bench"
            /\ UNCHANGED << retval, server_id >>
    /\ UNCHANGED << dashVars, parseVars, variant, op, running, selVars, speed_csv, speed_bak, ping_csv,
                    force_retest, max_servers_to_test, ping_i, interval, sleep_left, pre,
                    bench_log, speed_log, ping_log >>

\* test_server_performance(servers_to_test[bench_i]) returns to the loop of
\* find_best_server; after the last candidate the winner is chosen and saved
TestServerPerformance(outcome, out, write_ok) ==
    /\ pc = "fbs_bench"
    /\ LET id          == servers_to_test[bench_i]
           performance == Performance(id, out)
           results     == IF outcome = "ok" THEN Append(test_results, performance)
                          ELSE test_results
           known       == RecordResult(server_test_results, id, outcome, performance)
           best_server == SortByScore(results)[1]
       IN  /\ bench_log' = Append(bench_log, [id |-> id, ok |-> (outcome = "ok"),
                                              out |-> IF outcome = "ok" THEN out ELSE NoOutput])
           /\ test_results' = results
           /\ server_test_results' = known
           /\ IF bench_i < Len(servers_to_test)
              THEN /\ bench_i' = bench_i + 1
                   /\ UNCHANGED << pc, retval, server_id, preferred_server_id,
                                   best_server_cache_file >>
              ELSE /\ bench_i' = bench_i
                   /\ IF results = <<>>
                      THEN /\ FbsReturn(NoServer)
                           /\ UNCHANGED << preferred_server_id, best_server_cache_file >>
                      ELSE /\ preferred_server_id' = best_server.server_id
                           /\ best_server_cache_file' =
                                 SaveBestServerCache(best_server_cache_file,
                                                     best_server.server_id, known, write_ok)
                           /\ FbsReturn(best_server.server_id)
    /\ UNCHANGED << dashVars, parseVars, variant, op, running, speed_csv, speed_bak, ping_csv, force_retest,
                    max_servers_to_test, servers, servers_to_test, ping_i, interval,
                    sleep_left, pre, list_log, speed_log, ping_log >>

\* main: --set-preferred-server pins the id and saves the cache; main then
\* returns
SetPreferredServer(id, write_ok) ==
    /\ pc = "idle"
    /\ variant = "linux"
    /\ preferred_server_id' = id
    /\ best_server_cache_file' =
          SaveBestServerCache(best_server_cache_file, id, server_test_results, write_ok)
    /\ pc' = "done"
    /\ op' = "set_preferred_server"
    /\ UNCHANGED << dashVars, parseVars, variant, running, server_test_results, speed_csv, speed_bak,
                    ping_csv, findVars, server_id, ping_i, interval, sleep_left, retval,
                    pre, logVars >>

(* ---------------------------- run_speedtest --------------------------- *)
\* outcomes the throughput probe may have while the table has room
SpeedOutcomes ==
    IF Cardinality({i \in 2..Len(speed_csv) : speed_csv[i] = SpeedRow}) < MaxSpeedRows
    THEN ProbeOutcomes ELSE ProbeFailures

PingOutcomesNow ==
    IF Len(ping_csv) - 1 < MaxPingRows THEN PingOutcomes ELSE PingOutcomes \ {"ok"}

\* fault: use_best_server runs find_best_server(force_retest=True) before
\* every probe, also when a preferred id is set
StartSpeedtest_Reselects(use_best_server) ==
    IF variant = "linux" /\ use_best_server
    THEN /\ pc' = "fbs_list"
         /\ force_retest' = TRUE
         /\ max_servers_to_test' = DefaultMaxServersToTest
         /\ servers' = <<>>
         /\ servers_to_test' = <<>>
         /\ bench_i' = 0
         /\ test_results' = <<>>
         /\ server_id' = NoServer
    ELSE /\ pc' = "speed_probe"
         /\ server_id' = NoServer
         /\ UNCHANGED findVars

\* run_speedtest(use_best_server) up to its first probe: which server to ask
\* for; without a preferred id, use_best_server runs find_best_server()
StartSpeedtest(use_best_server) ==
    IF variant = "linux" /\ use_best_server /\ preferred_server_id = NoServer
    THEN /\ pc' = "fbs_list"
         /\ force_retest' = FALSE
         /\ max_servers_to_test' = DefaultMaxServersToTest
         /\ servers' = <<>>
         /\ servers_to_test' = <<>>
         /\ bench_i' = 0
         /\ test_results' = <<>>
         /\ server_id' = NoServer
    ELSE /\ pc' = "speed_probe"
         /\ server_id' = IF variant = "linux" /\ use_best_server
                         THEN preferred_server_id ELSE NoServer
         /\ UNCHANGED findVars

\* fault: a failed throughput probe is not caught inside run_speedtest and
\* ends the cycle
SpeedReturn_FailureRaises(v) ==
    /\ retval' = [fn |-> "run_speedtest", val |-> v]
    /\ IF op = "run_speedtest"
       THEN pc' = "done" /\ ping_i' = ping_i
       ELSE IF v = 0
            THEN pc' = "raised" /\ ping_i' = ping_i
            ELSE pc' = "ping" /\ ping_i' = 1

\* return of run_speedtest: to the caller of the public method, or into
\* run_single_test, which goes on with run_all_ping_tests
SpeedReturn(v) ==
    /\ retval' = [fn |-> "run_speedtest", val |-> v]
    /\ IF op = "run_speedtest"
       THEN pc' = "done" /\ ping_i' = ping_i
       ELSE pc' = "ping" /\ ping_i' = 1

\* the tail of run_speedtest after a probe that exited with code 0: parse,
\* _ensure_csv_has_server_id (Linux), append the row
ParseAndAppend(outcome, write_ok) ==
    LET checked == IF variant = "linux" THEN EnsureCsvHasServerId(speed_csv) ELSE speed_csv
    IN  IF outcome = "ok"
        THEN /\ speed_csv' = IF write_ok THEN Append(checked, SpeedRow) ELSE checked
             /\ SpeedReturn(IF write_ok THEN 1 ELSE 0)
        ELSE /\ speed_csv' = speed_csv
             /\ SpeedReturn(0)

\* run_speedtest(use_best_server) called directly by a user of the class
CallRunSpeedtest(use_best_server) ==
    /\ pc = "idle"
    /\ variant = "windows" => use_best_server = FALSE
    /\ op' = "run_speedtest"
    /\ pre' = Snapshot
    /\ list_log' = <<>>
    /\ bench_log' = <<>>
    /\ speed_log' = <<>>
    /\ ping_log' = <<>>
    /\ retval' = NoRet
    /\ StartSpeedtest(use_best_server)
    /\ UNCHANGED << dashVars, parseVars, variant, running, selVars, speed_csv, speed_bak, ping_csv, ping_i,
                    interval, sleep_left >>

\* the first subprocess.run of run_speedtest returns
SpeedProbe(outcome, write_ok) ==
    /\ pc = "speed_probe"
    /\ outcome \in SpeedOutcomes
    /\ speed_log' = Append(speed_log, [server |-> server_id, outcome |-> outcome,
                                       written |-> (outcome = "ok" /\ write_ok)])
    /\ IF outcome = "nonzero" /\ variant = "linux" /\ server_id # NoServer
       THEN /\ pc' = "speed_fallback"
            /\ UNCHANGED << speed_csv, retval, ping_i >>
       ELSE ParseAndAppend(outcome, write_ok)
    /\ UNCHANGED << dashVars, parseVars, variant, op, running, selVars, speed_bak, ping_csv, findVars,
                    server_id, interval, sleep_left, pre, list_log, bench_log, ping_log >>

\* the retry with automatic server selection returns
SpeedFallback(outcome, write_ok) ==
    /\ pc = "speed_fallback"
    /\ outcome \in SpeedOutcomes
    /\ speed_log' = Append(speed_log, [server |-> NoServer, outcome |-> outcome,
                                       written |-> (outcome = "ok" /\ write_ok)])
    /\ ParseAndAppend(outcome, write_ok)
    /\ UNCHANGED << dashVars, parseVars, variant, op, running, selVars, speed_bak, ping_csv, findVars,
                    server_id, interval, sleep_left, pre, list_log, bench_log, ping_log >>

(* ------------------- run_single_test, run_continuous ------------------ *)
\* fault: run_single_test calls run_speedtest() with its default
\* use_best_server=True
UseServerOptimization_Always == TRUE

\* run_single_test: use_server_optimization = bool(self.preferred_server_id)
UseServerOptimization == preferred_server_id # NoServer

\* run_single_test up to its first probe
BeginCycle ==
    /\ pre' = Snapshot
    /\ list_log' = <<>>
    /\ bench_log' = <<>>
    /\ speed_log' = <<>>
    /\ ping_log' = <<>>
    /\ retval' = NoRet
    /\ ping_i' = 0
    /\ StartSpeedtest(UseServerOptimization)

\* `while self.running:` of run_continuous
LoopCheck ==
    IF running
    THEN BeginCycle
    ELSE /\ pc' = "stopped"
         /\ UNCHANGED << pre, logVars, retval, ping_i, server_id, findVars >>

\* run_single_test called by main (--single) or a user of the class
CallRunSingleTest ==
    /\ pc = "idle"
    /\ op' = "run_single_test"
    /\ BeginCycle
    /\ UNCHANGED << dashVars, parseVars, variant, running, selVars, speed_csv, speed_bak, ping_csv, interval,
                    sleep_left >>

\* run_continuous(interval) called by main
CallRunContinuous(iv) ==
    /\ pc = "idle"
    /\ op' = "run_continuous"
    /\ interval' = iv
    /\ LoopCheck
    /\ UNCHANGED << dashVars, parseVars, variant, running, selVars, speed_csv, speed_bak, ping_csv, sleep_left >>

\* fault: the `if not latencies` test is missing
PingResult_NoSampleTest(outcome) == outcome \in {"ok", "nosamples"}

\* run_ping_test returns ping_data only when the probe exited with code 0
\* and at least one 'time=' sample was parsed; None otherwise
PingResult(outcome) == outcome = "ok"

\* what ping can print: up to MaxSamples reply lines and a statistics line
PingStdouts ==
    { [replies |-> r, summary |-> l] :
        r \in UNION { [1..n -> ReplyLines] : n \in 0..MaxSamples }, l \in SummaryLines }

\* the lines the loop over `lines` takes for reply lines: those holding
\* 'time=' (Windows: or 'time<')
RECURSIVE TimeLines(_, _)
TimeLines(v, replies) ==
    IF replies = <<>> THEN <<>>
    ELSE LET line == Head(replies)
             seen == line.kind \in {"eq", "bad"} \/ (v = "windows" /\ line.kind = "lt")
         IN  (IF seen THEN <<line>> ELSE <<>>) \o TimeLines(v, Tail(replies))

\* `latencies`, in thousandths of a millisecond: float() raises ValueError
\* on a "bad" line, which is skipped; `time<1ms` counts as 0.5
RECURSIVE Latencies(_)
Latencies(lines) ==
    IF lines = <<>> THEN <<>>
    ELSE LET line == Head(lines)
         IN  (IF line.kind = "eq" THEN <<line.ms>>
              ELSE IF line.kind = "lt" THEN <<500>>
              ELSE <<>>) \o Latencies(Tail(lines))

RECURSIVE SumSeq(_)
SumSeq(s) == IF s = <<>> THEN 0 ELSE Head(s) + SumSeq(Tail(s))

MinSeq(s) == CHOOSE x \in Range(s) : \A y \in Range(s) : x <= y
MaxSeq(s) == CHOOSE x \in Range(s) : \A y \in Range(s) : x >= y

\* round(num / den, 2) of a quotient of thousandths: hundredths, ties to even
RoundQuotient2(num, den) ==
    LET q == num \div (10 * den)
        r == num % (10 * den)
    IN  IF 2 * r > 10 * den THEN q + 1
        ELSE IF 2 * r < 10 * den THEN q
        ELSE IF q % 2 = 0 THEN q ELSE q + 1

\* fault: the mean divides by the number of 'time=' lines, also those
\* whose number could not be read
MeanLatency_OverAllLines(lines) ==
    RoundQuotient2(SumSeq(Latencies(lines)), Len(lines))

\* round(statistics.mean(latencies), 2), in hundredths
MeanLatency(lines) ==
    RoundQuotient2(SumSeq(Latencies(lines)), Len(Latencies(lines)))

\* the packet-loss loop of NetworkMonitor.run_ping_test on the line that
\* holds 'packet loss': line.split(',')[2], the text before its '%' given
\* to float(); IndexError and ValueError leave packet_loss at 0
LinuxPacketLoss(summary) ==
    IF \E i \in 1..Len(summary) : summary[i].text = "% packet loss"
    THEN IF Len(summary) < 3 THEN 0
         ELSE LET loss_str == summary[3]
              IN  IF loss_str.text \in PercentTexts THEN loss_str.num ELSE 0
    ELSE 0

\* the packet-loss loop of NetworkMonitorWindows.run_ping_test on the line
\* that holds 'Lost = ': the number between '(' and '%'
WindowsPacketLoss(summary) ==
    IF \E i \in 1..Len(summary) : summary[i].text = "% loss)"
    THEN (CHOOSE f \in Range(summary) : f.text = "% loss)").num
    ELSE 0

\* run_ping_test(target): None unless the command exited with 0 and a
\* latency was read
RunPingTest(v, target, outcome, stdout) ==
    LET lines == TimeLines(v, stdout.replies)
        latencies == Latencies(lines)
    IN  IF outcome # "ok" \/ latencies = <<>> THEN NoPingData
        ELSE [ target |-> target,
               avg_latency_ms |-> MeanLatency(lines),
               min_latency_ms |-> RoundQuotient2(MinSeq(latencies), 1),
               max_latency_ms |-> RoundQuotient2(MaxSeq(latencies), 1),
               packet_loss_percent |-> IF v = "linux" THEN LinuxPacketLoss(stdout.summary)
                                       ELSE WindowsPacketLoss(stdout.summary) ]

\* a caller invokes run_ping_test on the first target and the ping command
\* ends with `outcome`, having printed `stdout`
CallRunPingTest(outcome, stdout) ==
    /\ pc = "idle"
    /\ op' = "run_ping_test"
    /\ pc' = "done"
    /\ ping_stdout' = stdout
    /\ ping_data' = RunPingTest(variant, ping_targets[1], outcome, stdout)
    /\ UNCHANGED << dashVars, variant, running, selVars, speed_csv, speed_bak, ping_csv,
                    findVars, server_id, ping_i, interval, sleep_left, retval, pre, logVars >>

\* fault: the `if self.running` test before the sleep is missing
AfterCycle_AlwaysSleeps == "sleep"

\* run_continuous after run_single_test has returned: `if self.running` it
\* sleeps, else the `while self.running` test ends the loop
AfterCycle == IF running THEN "sleep" ELSE "stopped"

\* the rows run_all_ping_tests has written for the probes of `log`
RECURSIVE WrittenPingRows(_)
WrittenPingRows(log) ==
    IF log = <<>> THEN <<>>
    ELSE WrittenPingRows(SubSeq(log, 1, Len(log) - 1))
         \o (IF log[Len(log)].written THEN <<PingRow(log[Len(log)].target)>> ELSE <<>>)

\* fault: the rows are kept in ping_results and written when the loop over
\* the targets has ended
PingCsvAfter_Batched(file, log, entry) ==
    IF entry.target = ping_targets[Len(ping_targets)]
    THEN file \o WrittenPingRows(Append(log, entry))
    ELSE file

\* ping_tests.csv after one round of the loop of run_all_ping_tests: the
\* row of a result is appended inside the loop, before the next probe
PingCsvAfter(file, log, entry) ==
    IF entry.written THEN Append(file, PingRow(entry.target)) ELSE file

\* run_ping_test(ping_targets[ping_i]) returns to run_all_ping_tests, which
\* appends the row; after the last target run_single_test returns and
\* run_continuous decides on the sleep.  A failed write raises out of the
\* cycle: into the `except Exception` of run_continuous, or out of main.
\* The observations describe the cycle in progress: run_continuous, which
\* drops the cycle's result, starts its sleep with none.
PingProbe(outcome, write_ok) ==
    /\ pc = "ping"
    /\ outcome \in PingOutcomesNow
    /\ ping_csv' = PingCsvAfter(ping_csv, ping_log,
                                [target |-> ping_targets[ping_i], ok |-> (outcome = "ok"),
                                 written |-> (PingResult(outcome) /\ write_ok)])
    /\ LET entry == [target |-> ping_targets[ping_i], ok |-> (outcome = "ok"),
                     written |-> (PingResult(outcome) /\ write_ok)]
           raised == PingResult(outcome) /\ ~write_ok
           last == ping_i = Len(ping_targets)
       IN  IF op = "run_continuous" /\ (raised \/ last)
           THEN /\ list_log' = <<>>
                /\ bench_log' = <<>>
                /\ speed_log' = <<>>
                /\ ping_log' = <<>>
                /\ retval' = NoRet
                /\ ping_i' = 0
                /\ IF raised
                   THEN pc' = "cooldown" /\ sleep_left' = Cooldown
                   ELSE /\ pc' = AfterCycle
                        /\ sleep_left' = IF pc' = "sleep" THEN interval ELSE sleep_left
           ELSE /\ ping_log' = Append(ping_log, entry)
                /\ UNCHANGED << list_log, bench_log, speed_log, sleep_left >>
                /\ IF raised
                   THEN pc' = "raised" /\ UNCHANGED << ping_i, retval >>
                   ELSE IF ~last
                   THEN pc' = pc /\ ping_i' = ping_i + 1 /\ retval' = retval
                   ELSE /\ pc' = "done"
                        /\ ping_i' = ping_i
                        /\ retval' = [fn |-> "run_single_test", val |-> retval.val]
    /\ UNCHANGED << dashVars, parseVars, variant, op, running, selVars, speed_csv, speed_bak, findVars,
                    server_id, interval, pre >>

\* one step of the clock has passed in the sleep in progress.  Linux blocks
\* in one time.sleep for the whole duration; Windows sleeps one step at a
\* time and looks at self.running before each further step
SleepStep ==
    /\ sleep_left' = sleep_left - 1
    /\ IF sleep_left' = 0
       THEN LoopCheck
       ELSE IF variant = "windows" /\ ~running
       THEN LoopCheck
       ELSE UNCHANGED << pc, pre, logVars, retval, ping_i, server_id, findVars >>

\* the inter-cycle sleep of run_continuous
SleepTick ==
    /\ pc = "sleep"
    /\ SleepStep
    /\ UNCHANGED << dashVars, parseVars, variant, op, running, selVars, speed_csv, speed_bak, ping_csv,
                    interval >>

\* fault: the `except Exception` branch leaves the loop after its sleep
CooldownTick_ThenBreak ==
    /\ pc = "cooldown"
    /\ sleep_left' = sleep_left - 1
    /\ pc' = IF sleep_left' = 0 THEN "stopped" ELSE pc
    /\ UNCHANGED << dashVars, parseVars, variant, op, running, selVars, speed_csv, speed_bak, ping_csv,
                    interval, pre, logVars, retval, ping_i, server_id, findVars >>

\* the sleep of the `except Exception` branch of run_continuous
CooldownTick ==
    /\ pc = "cooldown"
    /\ SleepStep
    /\ UNCHANGED << dashVars, parseVars, variant, op, running, selVars, speed_csv, speed_bak, ping_csv,
                    interval >>

(* --------------------------- specification ---------------------------- *)
Step ==
    \/ \E args_server_id \in {NoServer} \cup PinnedIds : Construct(args_server_id)
    \/ \E k \in 0..MaxK, force \in BOOLEAN : CallFindBestServer(k, force)
    \/ \E outcome \in ProbeOutcomes, listing \in Listings :
          GetAvailableServers(outcome, listing)
    \/ \E outcome \in ProbeOutcomes, out \in BenchOutputs, write_ok \in BOOLEAN :
          TestServerPerformance(outcome, out, write_ok)
    \/ \E id \in ServerIds, write_ok \in BOOLEAN : SetPreferredServer(id, write_ok)
    \/ \E use_best_server \in BOOLEAN : CallRunSpeedtest(use_best_server)
    \/ \E outcome \in ProbeOutcomes, write_ok \in BOOLEAN : SpeedProbe(outcome, write_ok)
    \/ \E outcome \in ProbeOutcomes, write_ok \in BOOLEAN : SpeedFallback(outcome, write_ok)
    \/ CallRunSingleTest
    \/ \E iv \in Intervals : CallRunContinuous(iv)
    \/ \E outcome \in PingOutcomes, write_ok \in BOOLEAN : PingProbe(outcome, write_ok)
    \/ SleepTick
    \/ CooldownTick

Next == Step \/ SignalHandler

Spec == Init /\ [][Next]_vars

\* main with --continuous: the monitor is constructed and run_continuous is
\* the one method called on it
ContinuousStep ==
    \/ \E args_server_id \in {NoServer} \cup PinnedIds : Construct(args_server_id)
    \/ \E iv \in Intervals : CallRunContinuous(iv)
    \/ \E outcome \in ProbeOutcomes, write_ok \in BOOLEAN : SpeedProbe(outcome, write_ok)
    \/ \E outcome \in ProbeOutcomes, write_ok \in BOOLEAN : SpeedFallback(outcome, write_ok)
    \/ \E outcome \in PingOutcomes, write_ok \in BOOLEAN : PingProbe(outcome, write_ok)
    \/ SleepTick
    \/ CooldownTick

ContinuousNext == ContinuousStep \/ SignalHandler

(* ------------------------------ dashboard ----------------------------- *)
\* what the reader meets in a data row: every field parses; a numeric
\* field holds text float() rejects (ValueError); the row has fewer fields
\* than the header, so DictReader hands out None and float(None) raises
\* TypeError
RowKinds == {"ok", "bad_number", "short"}

\* the data rows of a table file the dashboard may be asked to read
Tables == UNION { [1..n -> RowKinds] : n \in 0..MaxTableRows }

Readers == {"serve_speed_data", "serve_ping_data"}

\* do_GET dispatches /api/speed-data or /api/ping-data: `data = []`, the
\* file is opened
ServeData(reader) ==
    /\ dash_pc = "idle"
    /\ dash_reader' = reader
    /\ dash_pc' = "reading"
    /\ dash_i' = 0
    /\ dash_data' = <<>>
    /\ UNCHANGED << dash_table, dash_status, monitorVars >>

\* one round of `for row in reader` inside the try of serve_speed_data /
\* serve_ping_data, or the end of the loop; `except (FileNotFoundError,
\* ValueError): pass` lies outside the loop and is followed by
\* send_json_response(data)
ReadRow ==
    /\ dash_pc = "reading"
    /\ IF dash_i = Len(dash_table)
       THEN /\ dash_pc' = "responded"
            /\ UNCHANGED << dash_i, dash_data >>
       ELSE LET row == dash_table[dash_i + 1]
            IN  /\ dash_i' = dash_i + 1
                /\ dash_data' = IF row = "ok" THEN Append(dash_data, dash_i + 1)
                                ELSE dash_data
                /\ dash_pc' = CASE row = "ok" -> "reading"
                                 [] row = "bad_number" -> "responded"
                                 [] row = "short" -> "raised"
    /\ UNCHANGED << dash_table, dash_reader, dash_status, monitorVars >>

\* fault: the header line is counted as a record
TotalTests_WithHeader(file) ==
    IF file = NoFile THEN 0 ELSE Len(file)

\* serve_status: max(0, len(file.readlines()) - 1), and 0 when open raises
\* FileNotFoundError; csv.writer puts every row on a line of its own
TotalTests(file) ==
    IF file = NoFile THEN 0
    ELSE IF Len(file) - 1 > 0 THEN Len(file) - 1 ELSE 0

\* do_GET dispatches /api/status: the dashboard, a process of its own,
\* counts the lines of the two tables as the monitor has left them
ServeStatus ==
    /\ dash_pc = "idle"
    /\ dash_reader' = "serve_status"
    /\ dash_pc' = "status_sent"
    /\ dash_status' = [total_speed_tests |-> TotalTests(speed_csv),
                       total_ping_tests |-> TotalTests(ping_csv)]
    /\ UNCHANGED << dash_table, dash_i, dash_data, monitorVars >>

\* a data directory that is fresh or holds an empty throughput table
StatusInit == InitOver({NoFile, <<>>}, {<<>>})

\* the monitor runs one cycle (main with --single) while the dashboard
\* answers one status request
StatusNext ==
    \/ \E args_server_id \in {NoServer} \cup PinnedIds : Construct(args_server_id)
    \/ CallRunSingleTest
    \/ \E outcome \in ProbeOutcomes, write_ok \in BOOLEAN : SpeedProbe(outcome, write_ok)
    \/ \E outcome \in ProbeOutcomes, write_ok \in BOOLEAN : SpeedFallback(outcome, write_ok)
    \/ \E outcome \in PingOutcomes, write_ok \in BOOLEAN : PingProbe(outcome, write_ok)
    \/ ServeStatus

StatusSpec == StatusInit /\ [][StatusNext]_vars

\* main with --find-best-server, the benchmarks printing any of ScoreOutputs
ScoreNext ==
    \/ \E args_server_id \in {NoServer} \cup PinnedIds : Construct(args_server_id)
    \/ \E k \in 0..MaxK, force \in BOOLEAN : CallFindBestServer(k, force)
    \/ \E outcome \in ProbeOutcomes, listing \in Listings : GetAvailableServers(outcome, listing)
    \/ \E outcome \in ProbeOutcomes, out \in ScoreOutputs, write_ok \in BOOLEAN :
          TestServerPerformance(outcome, out, write_ok)

ScoreSpec == Init /\ [][ScoreNext]_vars

\* run_ping_test called on its own, over everything ping can print
ParseNext ==
    \/ \E args_server_id \in {NoServer} \cup PinnedIds : Construct(args_server_id)
    \/ \E outcome \in {"ok", "nonzero", "timeout"}, stdout \in PingStdouts :
          CallRunPingTest(outcome, stdout)

ParseSpec == Init /\ [][ParseNext]_vars

\* a data directory whose throughput table an earlier run of the same
\* monitor created and appended one row to
AppendInit ==
    /\ InitOver({<<LinuxSpeedHeader, EarlierSpeedRow>>, <<WindowsSpeedHeader, EarlierSpeedRow>>},
                {<<>>})
    /\ speed_csv[1] = (IF variant = "linux" THEN LinuxSpeedHeader ELSE WindowsSpeedHeader)

\* main with --single or --continuous
AppendNext ==
    \/ \E args_server_id \in {NoServer} \cup PinnedIds : Construct(args_server_id)
    \/ CallRunSingleTest
    \/ \E iv \in Intervals : CallRunContinuous(iv)
    \/ \E outcome \in ProbeOutcomes, write_ok \in BOOLEAN : SpeedProbe(outcome, write_ok)
    \/ \E outcome \in ProbeOutcomes, write_ok \in BOOLEAN : SpeedFallback(outcome, write_ok)
    \/ \E outcome \in PingOutcomes, write_ok \in BOOLEAN : PingProbe(outcome, write_ok)
    \/ SleepTick
    \/ CooldownTick
    \/ SignalHandler

AppendSpec == AppendInit /\ [][AppendNext]_vars

\* a fresh data directory but for a best_server.json that is of no use
CacheInit == InitWith({NoFile}, {<<>>}, BrokenCaches)

\* main with --single or --continuous and without --server-id
CacheNext ==
    \/ Construct(NoServer)
    \/ CallRunSingleTest
    \/ \E iv \in Intervals : CallRunContinuous(iv)
    \/ \E outcome \in ProbeOutcomes, write_ok \in BOOLEAN : SpeedProbe(outcome, write_ok)
    \/ \E outcome \in ProbeOutcomes, write_ok \in BOOLEAN : SpeedFallback(outcome, write_ok)
    \/ \E outcome \in PingOutcomes, write_ok \in BOOLEAN : PingProbe(outcome, write_ok)
    \/ SleepTick
    \/ CooldownTick
    \/ SignalHandler

CacheSpec == CacheInit /\ [][CacheNext]_vars

\* the dashboard serving one request over a table file
ReaderInit == InitOver({NoFile}, Tables)

ReaderNext ==
    \/ \E reader \in Readers : ServeData(reader)
    \/ ReadRow

ReaderSpec == ReaderInit /\ [][ReaderNext]_vars

\* main with --single over the table an earlier version left: the monitor
\* is constructed and run_single_test is the one method called on it
StoreNext ==
    \/ \E args_server_id \in {NoServer} \cup PinnedIds : Construct(args_server_id)
    \/ CallRunSingleTest
    \/ \E outcome \in ProbeOutcomes, write_ok \in BOOLEAN : SpeedProbe(outcome, write_ok)
    \/ \E outcome \in ProbeOutcomes, write_ok \in BOOLEAN : SpeedFallback(outcome, write_ok)
    \/ \E outcome \in PingOutcomes, write_ok \in BOOLEAN : PingProbe(outcome, write_ok)
    \/ SignalHandler

StoreSpec == StoreInit /\ [][StoreNext]_vars

\* the thread is scheduled whenever it can run and external probes and
\* sleeps end: everything but the arrival of a signal is weakly fair
LiveSpec == Init /\ [][ContinuousNext]_vars /\ WF_vars(ContinuousStep)

(* ============================ properties ============================== *)
\* run_speedtest has returned in the current call or cycle
SpeedtestReturned == retval.fn \in {"run_speedtest", "run_single_test"}

\* find_best_server has run its benchmarking path and returned
FindReturned ==
    /\ list_log # <<>>
    /\ \/ op = "find_best_server" /\ pc = "done"
       \/ op # "find_best_server" /\ pc \notin {"fbs_list", "fbs_bench"}

\* the value find_best_server returned: to its caller, or to run_speedtest
FindResult == IF op = "find_best_server" THEN retval.val ELSE server_id

\* rows appended since the call / cycle began
SpeedRowsAdded == Len(speed_csv) - pre.speed
PingRowsAdded == SubSeq(ping_csv, pre.ping + 1, Len(ping_csv))

\* the candidates whose benchmark succeeded, in the order benchmarked
Survivors == SelectSeq(bench_log, LAMBDA e : e.ok)

\* C1: in run_speedtest, whenever the probe against a specific (cached or
\* pinned) server fails, in whatever way (exit code, timeout, unparsable
\* output), exactly one further probe with automatic selection is made
\* before the call gives up, and when that probe succeeds (and the row can
\* be written) exactly one throughput row is appended.
C1_FallbackOnEveryFailure ==
    ( /\ SpeedtestReturned
      /\ speed_log # <<>>
      /\ speed_log[1].server # NoServer
      /\ speed_log[1].outcome \in ProbeFailures )
    => /\ Len(speed_log) = 2
       /\ speed_log[2].server = NoServer
       /\ speed_log[2].written => SpeedRowsAdded = 1

\* C2: find_best_server(force_retest=False) with a preferred id cached
\* returns that id, runs neither the listing probe nor a benchmark probe and
\* leaves the selection state in memory and on disk as it was; a listing
\* or benchmark probe is in flight only in a call that had no cached id or
\* was told to force the retest.
C2_CacheHitProbesNothing ==
    /\ ( /\ op = "find_best_server"
         /\ pc = "done"
         /\ ~force_retest
         /\ pre.pref # NoServer )
       => /\ retval.val = pre.pref
          /\ list_log = <<>>
          /\ bench_log = <<>>
          /\ preferred_server_id = pre.pref
          /\ server_test_results = pre.results
          /\ best_server_cache_file = pre.file
    /\ pc \in {"fbs_list", "fbs_bench"} => (force_retest \/ pre.pref = NoServer)

C2_Witness ==
    /\ op = "find_best_server"
    /\ pc = "done"
    /\ ~force_retest
    /\ pre.pref # NoServer
    /\ retval.val = pre.pref

\* C3: a benchmarking run of find_best_server returns the id of the
\* survivor with the highest score, whatever the order of the listing; of
\* two survivors with the same score the one listed earlier wins.
C3_BestScoreWins ==
    (FindReturned /\ Survivors # <<>>)
    => \E i \in 1..Len(Survivors) :
          /\ FindResult = Survivors[i].id
          /\ \A j \in 1..Len(Survivors) :
                LET si == server_test_results[Survivors[i].id].score
                    sj == server_test_results[Survivors[j].id].score
                IN  j # i => (si > sj \/ (si = sj /\ i < j))

\* three survivors, the first with a lower score, the other two tied at
\* the top: the second one listed is returned
C3_Witness ==
    /\ op = "find_best_server"
    /\ pc = "done"
    /\ Len(Survivors) = 3
    /\ server_test_results[Survivors[1].id].score = 1700
    /\ server_test_results[Survivors[2].id].score = 2500
    /\ server_test_results[Survivors[3].id].score = 2500
    /\ retval.val = Survivors[2].id

\* C4: one call of run_single_test appends no throughput row when every
\* throughput probe of the call fails and at most one otherwise, and, in
\* the order of the configured targets, one latency row for each target
\* whose probe succeeded and none for the others, whatever the throughput
\* probe did.
C4_RowsPerCycle ==
    (op = "run_single_test" /\ pc = "done")
    => /\ SpeedRowsAdded \in {0, 1}
       /\ (\A i \in 1..Len(speed_log) : speed_log[i].outcome # "ok") => SpeedRowsAdded = 0
       /\ Len(ping_log) = Len(ping_targets)
       /\ \A i \in 1..Len(ping_log) : ping_log[i].target = ping_targets[i]
       /\ LET succeeded == SelectSeq(ping_log, LAMBDA e : e.ok)
          IN  /\ Len(PingRowsAdded) = Len(succeeded)
              /\ \A i \in 1..Len(succeeded) : PingRowsAdded[i][2] = succeeded[i].target

\* the throughput probe timed out, every latency probe succeeded
C4_Witness ==
    /\ op = "run_single_test"
    /\ pc = "done"
    /\ Len(speed_log) = 1
    /\ speed_log[1].outcome = "timeout"
    /\ SpeedRowsAdded = 0
    /\ \A i \in 1..Len(ping_log) : ping_log[i].ok
    /\ Len(PingRowsAdded) = Len(ping_targets)

\* the header _init_csv_files of the variant writes to a new table
InitHeader == IF variant = "linux" THEN LinuxSpeedHeader ELSE WindowsSpeedHeader

\* C5: in each variant every data row of the throughput table has as many
\* fields as the header _init_csv_files wrote, and its i-th field carries
\* the value of the column the i-th header field names.
C5_RowsMatchHeader ==
    pc # "new"
    => \A r \in 2..Len(speed_csv) :
          /\ Len(speed_csv[r]) = Len(InitHeader)
          /\ \A i \in 1..Len(InitHeader) : speed_csv[r][i] = InitHeader[i]

\* places of the thread inside a cycle (run_single_test)
CyclePcs == {"fbs_list", "fbs_bench", "speed_probe", "speed_fallback", "ping"}

\* run_continuous has seen a signal while its cycle is in flight
Draining == op = "run_continuous" /\ ~running /\ pc \in CyclePcs

\* C6: in each variant a shutdown signal that arrives during the
\* inter-cycle sleep or the error cooldown ends the loop within one step of
\* the sleep: the step after the signal leaves run_continuous.
C6_SleepInterruptible ==
    [][(pc \in {"sleep", "cooldown"} /\ ~running) => pc' = "stopped"]_vars

\* C7: a signal received while a cycle is in flight drains and stops the
\* scheduler: the signal itself moves nothing but the flag, the cycle is
\* left only after its last probe has returned (or by an error), the
\* inter-cycle sleep is not entered and no cycle is begun
\* once the signal is seen, and run_continuous returns in the end.
C7_DrainThenStop ==
    /\ [][ /\ (running /\ ~running') => pc' = pc
           /\ (op = "run_continuous" /\ ~running)
              => /\ pc # "sleep" => pc' # "sleep"
                 /\ pc \notin CyclePcs => pc' \notin CyclePcs
           /\ (Draining /\ pc' \notin CyclePcs)
              => \/ pc = "ping" /\ ping_i = Len(ping_targets) /\ pc' = "stopped"
                 \/ pc = "ping" /\ pc' = "cooldown" ]_vars
    /\ Draining ~> (pc = "stopped")

\* the signal came during the cycle and the cycle has reached its last probe
C7_Witness ==
    /\ Draining
    /\ pc = "ping"
    /\ ping_i = Len(ping_targets)
    /\ Len(ping_log) = Len(ping_targets) - 1

\* C8: an error raised by a cycle of run_continuous does not end the
\* scheduler: it sleeps the fixed cooldown, whatever the interval, and
\* unless a signal has arrived begins another cycle; without a signal a
\* cycle begins again and again.
C8_ErrorCooldownThenResume ==
    /\ [][ /\ (pc # "cooldown" /\ pc' = "cooldown")
              => (pc = "ping" /\ sleep_left' = Cooldown)
           /\ op = "run_continuous" => pc' # "raised" ]_vars
    /\ (pc = "cooldown") ~> (~running \/ pc = "speed_probe")
    /\ (op = "run_continuous") ~> (~running \/ pc = "speed_probe")

\* a cycle has raised under an interval that differs from the cooldown
C8_Witness ==
    /\ op = "run_continuous"
    /\ pc = "cooldown"
    /\ running
    /\ sleep_left = Cooldown
    /\ interval # Cooldown

\* C9: a benchmarking run of find_best_server that fails totally (empty or
\* unavailable listing, or no candidate benchmarked successfully) returns
\* None and leaves preferred_server_id, server_test_results and
\* best_server.json as they were before the run.
C9_TotalFailureChangesNothing ==
    FindReturned
    => /\ (servers = <<>> \/ Survivors = <<>>) => FindResult = NoServer
       /\ FindResult = NoServer
          => /\ preferred_server_id = pre.pref
             /\ server_test_results = pre.results
             /\ best_server_cache_file = pre.file

\* a forced retest over a cached id in which every benchmark failed
C9_Witness ==
    /\ op = "find_best_server"
    /\ pc = "done"
    /\ force_retest
    /\ pre.pref # NoServer
    /\ pre.file.exists
    /\ Len(bench_log) >= 2
    /\ Survivors = <<>>
    /\ retval.val = NoServer

\* C10: a benchmarking run of find_best_server(max_servers_to_test=k)
\* benchmarks the first min(k, number listed) candidates, each once, in
\* the order of the listing, goes on after a failed benchmark, and returns
\* None only when no benchmark succeeded.
C10_BenchmarksFirstK ==
    LET n == Min(max_servers_to_test, Len(servers))
    IN  /\ (pc = "fbs_bench" \/ FindReturned)
           => /\ Len(bench_log) <= n
              /\ \A i \in 1..Len(bench_log) : bench_log[i].id = servers[i]
        /\ pc = "fbs_bench" => Len(bench_log) = bench_i - 1
        /\ FindReturned
           => /\ Len(bench_log) = n
              /\ FindResult = NoServer <=> Survivors = <<>>

\* three servers listed, two to test: the first fails, the second is chosen
C10_Witness ==
    /\ op = "find_best_server"
    /\ pc = "done"
    /\ max_servers_to_test = 2
    /\ Len(servers) = 3
    /\ Len(bench_log) = 2
    /\ ~bench_log[1].ok
    /\ bench_log[2].ok
    /\ retval.val = bench_log[2].id

\* C11: whenever a benchmarking run of find_best_server returns a server
\* id, best_server.json holds that id together with the performance map,
\* so that a process loading the cache at start has preferred_server_id
\* equal to the returned id.
C11_ReturnedIdIsPersisted ==
    (FindReturned /\ FindResult # NoServer)
    => /\ best_server_cache_file.exists
       /\ LoadBestServerCache(best_server_cache_file).preferred_server_id = FindResult
       /\ LoadBestServerCache(best_server_cache_file).server_test_results
             = server_test_results

\* C12: migration of the throughput table is idempotent in each variant:
\* on a table that was migrated, or created with the current header, it
\* changes nothing (neither table nor backup), so migrating twice gives
\* what migrating once gives.
C12_MigrationIdempotent ==
    speed_csv # NoFile
    => /\ LET once == MigrateCsvIfNeeded(speed_csv, speed_bak)
          IN  /\ MigrateCsvIfNeeded(once.csv, once.bak) = once
              /\ (variant = "windows" /\ pc # "new")
                 => once = [csv |-> speed_csv, bak |-> speed_bak]
       /\ LET once == EnsureCsvHasServerId(speed_csv)
          IN  /\ EnsureCsvHasServerId(once) = once
              /\ (variant = "linux" /\ speed_csv[1] = LinuxSpeedHeader)
                 => once = speed_csv

\* a Windows process has migrated an old table with rows and appended to it
C12_Witness ==
    /\ variant = "windows"
    /\ speed_bak # NoFile
    /\ Len(speed_bak) >= 2
    /\ Len(speed_csv) >= 3
    /\ speed_csv[Len(speed_csv)] = SpeedRow

\* rows of the throughput table that this process has appended
RowsWritten == Cardinality({i \in 2..Len(speed_csv) : speed_csv[i] = SpeedRow})

\* C13: migration preserves the row count: an old table with N data rows,
\* whatever their lengths, becomes a table with exactly N data rows, each
\* with as many fields as the new header.
C13_MigrationKeepsRowCount ==
    /\ (variant = "windows" /\ speed_bak # NoFile)
       => /\ Len(speed_csv) - RowsWritten = Len(speed_bak)
          /\ \A i \in 2..(Len(speed_csv) - RowsWritten) :
                Len(speed_csv[i]) = Len(WindowsSpeedHeader)
    /\ (speed_csv # NoFile /\ speed_csv[1] = OldSpeedHeader)
       => LET migrated == EnsureCsvHasServerId(speed_csv)
          IN  /\ Len(migrated) = Len(speed_csv)
              /\ \A i \in 2..Len(migrated) : Len(migrated[i]) = Len(LinuxSpeedHeader)

\* the step rewrites the throughput table: what was in it does not stay as
\* the head of what is in it afterwards
SpeedCsvRewritten ==
    /\ speed_csv # NoFile
    /\ \/ Len(speed_csv') < Len(speed_csv)
       \/ SubSeq(speed_csv', 1, Len(speed_csv)) # speed_csv

\* C14: whenever a migration rewrites the throughput table, in either
\* variant, the backup file holds the complete original content (header
\* and all rows) when the table has been overwritten.
C14_BackupBeforeRewrite ==
    [][SpeedCsvRewritten => speed_bak' = speed_csv]_vars

\* C15: in each variant the schema check and migration of the throughput
\* table run during start-up, before the first append: once the monitor is
\* constructed the table carries the current header, so the header is
\* never changed later and no row is appended under an older header.
C15_MigratedAtStartup == pc # "new" => speed_csv[1] = InitHeader

\* the numbers of the parseable rows of the table, in file order
RECURSIVE OkRows(_)
OkRows(n) ==
    IF n = 0 THEN <<>>
    ELSE OkRows(n - 1) \o (IF dash_table[n] = "ok" THEN <<n>> ELSE <<>>)

\* C16: the full-scan readers return the stored rows in insertion order
\* and skip only the rows that fail to parse: every parseable row before
\* and after a corrupt row is in the result, and the read does not fail.
C16_ReaderSkipsOnlyCorruptRows ==
    /\ dash_pc # "raised"
    /\ dash_pc = "responded" => dash_data = OkRows(Len(dash_table))

\* the thread is inside run_single_test, called directly or by run_continuous
InCycle == op \in {"run_single_test", "run_continuous"} /\ pc \in CyclePcs

\* C17: no failure of a probe escapes a cycle: whatever the outcome of the
\* throughput probe and of a latency probe, run_speedtest and
\* run_ping_test return (None on a failure) and run_single_test goes on
\* with every remaining probe; nothing but a failed write raises.
C17_ProbeFailuresStayInCycle ==
    /\ pc = "raised"
       => /\ ping_log # <<>>
          /\ ping_log[Len(ping_log)].ok
          /\ ~ping_log[Len(ping_log)].written
    /\ (InCycle /\ pc = "ping")
       => /\ speed_log # <<>>
          /\ retval.fn = "run_speedtest"
          /\ speed_log[Len(speed_log)].outcome # "ok" => retval.val = 0
          /\ Len(ping_log) = ping_i - 1
    /\ (op = "run_single_test" /\ pc = "done")
       => /\ speed_log # <<>>
          /\ Len(ping_log) = Len(ping_targets)
    /\ \A i \in 1..Len(ping_log) : ping_log[i].target = ping_targets[i]
    /\ (op = "run_speedtest" /\ pc = "done" /\ speed_log[Len(speed_log)].outcome # "ok")
       => retval.val = 0

\* a cycle in which the throughput probe, its fallback and every latency
\* probe failed has run to its end
C17_Witness ==
    /\ op = "run_single_test"
    /\ pc = "done"
    /\ Len(speed_log) = 2
    /\ speed_log[1].outcome = "nonzero"
    /\ speed_log[2].outcome = "timeout"
    /\ Len(ping_log) = Len(ping_targets)
    /\ \A i \in 1..Len(ping_log) : ~ping_log[i].ok

\* C18: a failed write of a row to the throughput or the latency table
\* never terminates the monitoring process, in single-cycle mode or in
\* continuous mode: no exception leaves run_single_test into main or
\* leaves run_continuous.
C18_WriteFailureNeverFatal == pc # "raised"

\* throughput rows the probes of speed_log have written
SpeedRowsLogged == Cardinality({i \in 1..Len(speed_log) : speed_log[i].written})

\* C19: within one cycle the throughput probe, with its fallback, is over
\* before the first latency probe starts, the latency probes follow the
\* order of ping_targets, and every successful result is in its table
\* before the next probe starts: at each point of a cycle, also one that
\* was cut short, the tables hold the rows of all probes made so far.
C19_ResultsPersistedAsTheyComplete ==
    (op \in {"run_single_test", "run_continuous"} /\ pc \in CyclePcs \cup {"done", "raised"})
    => /\ pc \in {"speed_probe", "speed_fallback"} => ping_log = <<>>
       /\ (pc = "ping" \/ ping_log # <<>>) => retval.fn \in {"run_speedtest", "run_single_test"}
       /\ \A i \in 1..Len(ping_log) : ping_log[i].target = ping_targets[i]
       /\ SpeedRowsAdded = SpeedRowsLogged
       /\ PingRowsAdded = WrittenPingRows(ping_log)

\* a cycle cut short at its second latency probe has kept the throughput
\* row and the row of the first latency probe
C19_Witness ==
    /\ op = "run_single_test"
    /\ pc = "raised"
    /\ Len(ping_log) = 2
    /\ ping_log[1].written
    /\ SpeedRowsAdded = 1
    /\ PingRowsAdded = <<PingRow(ping_targets[1])>>

\* the thread is in a cycle of the scheduler, or has left one, with the
\* observations of that cycle
CycleObserved ==
    op \in {"run_single_test", "run_continuous"} /\ pc \in CyclePcs \cup {"done", "raised"}

\* C20: on a cold start (no cached and no pinned preferred id) a cycle of
\* the scheduler runs the server selection, listing and benchmarking,
\* before its throughput probe; with an id cached the cycle goes straight
\* to the throughput probe.
C20_ColdStartSelectsFirst ==
    CycleObserved
    => /\ (pre.pref = NoServer /\ speed_log # <<>>) => list_log # <<>>
       /\ pre.pref # NoServer => list_log = <<>>

\* C20, as the code has it: a cycle of the scheduler never runs the server
\* selection.  Without a preferred id its throughput probe asks for
\* automatic selection, with a cached or pinned id it asks for that id; no
\* listing or benchmark probe is made and the selection state stays as it
\* was.
C20_CyclesNeverSelect ==
    CycleObserved
    => /\ list_log = <<>>
       /\ bench_log = <<>>
       /\ pc \notin {"fbs_list", "fbs_bench"}
       /\ speed_log # <<>> => speed_log[1].server = pre.pref
       /\ preferred_server_id = pre.pref
       /\ server_test_results = pre.results
       /\ best_server_cache_file = pre.file

\* a cycle on a cold start has made its throughput probe with automatic
\* selection and has ended
C20_Witness ==
    /\ op = "run_single_test"
    /\ pc = "done"
    /\ variant = "linux"
    /\ pre.pref = NoServer
    /\ ~pre.file.exists
    /\ Len(speed_log) = 1
    /\ speed_log[1].server = NoServer
    /\ speed_log[1].outcome = "ok"

\* C21: get_available_servers returns the candidates in ascending order of
\* distance, whatever the catalog lists, so the candidates benchmarked by
\* find_best_server(max_servers_to_test = k) are the k nearest of the
\* listing.
C21_CandidatesByDistance ==
    /\ \A i, j \in 1..Len(servers) :
          i < j => Distance(servers[i]) <= Distance(servers[j])
    /\ \A i \in 1..Len(servers_to_test) :
          \A j \in 1..Len(servers) :
             Distance(servers[j]) < Distance(servers_to_test[i])
                => \E m \in 1..Len(servers_to_test) : servers_to_test[m] = servers[j]

\* the listing probe of the selection run in progress has failed
ListingFailed == list_log # <<>> /\ list_log[Len(list_log)] \in ProbeFailures

\* C22: when the server listing is unavailable (the listing probe fails,
\* times out or prints malformed data) the selection run ends without any
\* benchmark probe, and a throughput measurement that asked for the best
\* server goes on in the same call, with automatic server selection.
C22_ListingFailureFallsBackToAuto ==
    ListingFailed
    => /\ bench_log = <<>>
       /\ pc \notin {"fbs_list", "fbs_bench"}
       /\ op = "find_best_server" => (pc = "done" /\ retval.val = NoServer)
       /\ op = "run_speedtest"
          => /\ server_id = NoServer
             /\ pc \in {"speed_probe", "done"}
             /\ pc = "speed_probe" => speed_log = <<>>
             /\ pc = "done" => (Len(speed_log) = 1 /\ speed_log[1].server = NoServer)

\* the listing timed out and the measurement was made and stored all the same
C22_Witness ==
    /\ op = "run_speedtest"
    /\ pc = "done"
    /\ list_log = <<"timeout">>
    /\ Len(speed_log) = 1
    /\ speed_log[1].outcome = "ok"
    /\ speed_log[1].written
    /\ retval.val = 1

\* the file holds a header line
HasHeader(file) == file # NoFile /\ file # <<>>

\* the throughput table was created by _init_csv_files of this process:
\* it was not there, or was there with a header, when the cycle began
CreatedHere == HasHeader(speed_csv) /\ (op = "none" \/ pre.speed = 1)

\* C23: the record count serve_status reports for each table is the number
\* of data rows of the file (its lines less the header line), hence the
\* number of rows appended so far to a store this program created; it is 0
\* when the file is missing or empty.
C23_StatusCountsRows ==
    [][(dash_pc = "idle" /\ dash_pc' = "status_sent")
          => /\ speed_csv \in {NoFile, <<>>} => dash_status'.total_speed_tests = 0
             /\ ping_csv \in {NoFile, <<>>} => dash_status'.total_ping_tests = 0
             /\ HasHeader(speed_csv)
                => dash_status'.total_speed_tests = Len(Tail(speed_csv))
             /\ HasHeader(ping_csv)
                => dash_status'.total_ping_tests = Len(Tail(ping_csv))
             /\ CreatedHere
                => dash_status'.total_speed_tests = SpeedRowsLogged
             /\ HasHeader(ping_csv)
                => dash_status'.total_ping_tests = Len(WrittenPingRows(ping_log))]_vars

\* the status was asked for after a cycle that stored a throughput row and
\* more than one latency row
C23_Witness ==
    /\ dash_pc = "status_sent"
    /\ dash_status.total_speed_tests = 1
    /\ dash_status.total_ping_tests >= 2
    /\ op = "run_single_test"
    /\ pc = "done"
    /\ Len(ping_csv) - 1 = dash_status.total_ping_tests

\* C24: the score recorded for a benchmarked server is download_mbps -
\* ping_ms / 10 of the download and the ping recorded in the same
\* performance record, and is the score server_optimizer.py gives for the
\* same probe output.  (Hundredths: ten times the score is ten times the
\* download less the ping.)
C24_ScoreOfRecordedFigures ==
    (op = "find_best_server" /\ Len(test_results) = Len(Survivors))
    => \A j \in 1..Len(test_results) :
          /\ test_results[j].score * 10
                = test_results[j].download_mbps * 10 - test_results[j].ping_ms
          /\ test_results[j].score
                = OptimizerResult(Survivors[j].id, Survivors[j].out).score

\* the field of the statistics line that states the packet loss
LossStated(summary) == (CHOOSE f \in Range(summary) : f.text = "% packet loss").num

\* C25: whenever the statistics line holds 'packet loss', run_ping_test of
\* network_monitor.py records the percentage stated on that line, whatever
\* other fields the line has.
C25_StatedLossRecorded ==
    (/\ op = "run_ping_test"
     /\ variant = "linux"
     /\ ping_data # NoPingData
     /\ \E i \in 1..Len(ping_stdout.summary) : ping_stdout.summary[i].text = "% packet loss")
    => ping_data.packet_loss_percent = LossStated(ping_stdout.summary)

\* the samples run_ping_test read from the output it was given
SamplesRead == Latencies(TimeLines(variant, ping_stdout.replies))

\* C27: the latency figures run_ping_test hands to run_all_ping_tests for a
\* row satisfy min_latency_ms <= avg_latency_ms <= max_latency_ms, all
\* three taken from the one non-empty list of samples of that probe; an
\* output without a latency sample gives no figures, hence no row.
C27_MinAvgMax ==
    op = "run_ping_test"
    => /\ ping_data # NoPingData
          => /\ SamplesRead # <<>>
             /\ ping_data.min_latency_ms = RoundQuotient2(MinSeq(SamplesRead), 1)
             /\ ping_data.max_latency_ms = RoundQuotient2(MaxSeq(SamplesRead), 1)
             /\ ping_data.min_latency_ms <= ping_data.avg_latency_ms
             /\ ping_data.avg_latency_ms <= ping_data.max_latency_ms
       /\ SamplesRead = <<>> => ping_data = NoPingData

\* two samples that differ, next to a line that could not be read
C27_Witness ==
    /\ op = "run_ping_test"
    /\ ping_data # NoPingData
    /\ Len(SamplesRead) = 2
    /\ ping_data.min_latency_ms < ping_data.avg_latency_ms
    /\ ping_data.avg_latency_ms < ping_data.max_latency_ms

\* probes that have returned in the current call / cycle
ProbesReturned == Len(list_log) + Len(bench_log) + Len(speed_log) + Len(ping_log)

\* measurements held by the two tables
RowsStored ==
    (IF HasHeader(speed_csv) THEN Len(speed_csv) - 1 ELSE 0)
      + (IF HasHeader(ping_csv) THEN Len(ping_csv) - 1 ELSE 0)

\* C26: the monitor does one thing at a time: a step completes at most one
\* external probe (listing, benchmark, throughput or latency) and appends
\* at most one row to the two tables together, a row is appended only by
\* the step in which a throughput or latency probe returns, and the handling of a shutdown
\* signal completes no probe, appends nothing and leaves the interrupted
\* thread where it was.
C26_OneAtATime ==
    [][ /\ ProbesReturned' <= ProbesReturned + 1
        /\ RowsStored' <= RowsStored + 1
        /\ RowsStored' # RowsStored => pc \in {"speed_probe", "speed_fallback", "ping"}
        /\ running' # running
           => /\ pc' = pc
              /\ logVars' = logVars
              /\ << speed_csv, ping_csv >>' = << speed_csv, ping_csv >> ]_vars

\* a signal was handled between two appends of a cycle
C26_Witness ==
    /\ Draining
    /\ pc = "ping"
    /\ ping_i = 2
    /\ SpeedRowsLogged = 1
    /\ Len(WrittenPingRows(ping_log)) = 1

\* every value of the row that came from a column of the old table stands
\* under the column of that name (a value is written as the name of the
\* column it was measured for)
UnderOwnColumn(row, header) ==
    \A j \in 1..Len(row) :
        row[j] \in Range(OldSpeedHeader) => (j <= Len(header) /\ header[j] = row[j])

\* C28: migration keeps every historical value under its own column: in a
\* table that carries the new header, each row that was there before this
\* process holds, under every column name the old header had, the value it
\* held under that name before.
C28_ValuesStayUnderTheirColumn ==
    (pc # "new" /\ HasHeader(speed_csv) /\ speed_csv[1] = InitHeader)
    => \A i \in 2..(Len(speed_csv) - RowsWritten) :
          UnderOwnColumn(speed_csv[i], speed_csv[1])

\* the first throughput probe of the cycle asked for a specific server and
\* failed
FirstProbeFailed ==
    /\ CycleObserved
    /\ speed_log # <<>>
    /\ speed_log[1].server # NoServer
    /\ speed_log[1].outcome \in ProbeFailures

\* C29: the fallback of the throughput probe leaves the selection state
\* alone: in and after a cycle whose probe of the cached or pinned server
\* failed, with or without a successful fallback, preferred_server_id, the
\* performance map and the cache file are what they were when the cycle
\* began; no step of a cycle changes them, and the first throughput probe
\* of every cycle that has a preferred id asks for that id.
C29_FallbackKeepsSelection ==
    [][ /\ FirstProbeFailed'
           => /\ preferred_server_id' = pre'.pref
              /\ server_test_results' = pre'.results
              /\ best_server_cache_file' = pre'.file
              /\ preferred_server_id' = speed_log'[1].server
        /\ CycleObserved => selVars' = selVars
        /\ (CycleObserved' /\ pc = "speed_probe" /\ variant = "linux"
              /\ speed_log = <<>> /\ speed_log' # <<>> /\ preferred_server_id # NoServer)
           => speed_log'[1].server = preferred_server_id ]_vars

\* a cycle whose probe of the preferred server failed and whose fallback
\* stored a row has ended
C29_Witness ==
    /\ FirstProbeFailed
    /\ op = "run_single_test"
    /\ pc = "done"
    /\ Len(speed_log) = 2
    /\ speed_log[2].written
    /\ preferred_server_id = speed_log[1].server

\* the step rewrites the latency table
PingCsvRewritten ==
    /\ ping_csv # NoFile
    /\ \/ Len(ping_csv') < Len(ping_csv)
       \/ SubSeq(ping_csv', 1, Len(ping_csv)) # ping_csv

\* C30: over a store this program created, no step of run_single_test or
\* run_continuous removes, reorders or rewrites a row of the throughput or
\* of the latency table: what a table holds stays the head of what it holds
\* after the step.
C30_TablesAppendOnly ==
    [][~SpeedCsvRewritten /\ ~PingCsvRewritten]_vars

\* the Linux monitor has appended to a throughput table that held a row of
\* an earlier run, and to a latency table that held a row of this cycle
C30_Witness ==
    /\ variant = "linux"
    /\ speed_csv = <<LinuxSpeedHeader, EarlierSpeedRow, SpeedRow>>
    /\ Len(ping_csv) >= 3

\* the performance map holds a benchmark of the server
Benchmarked(results, id) == results[id].server_id = id

\* C31: whenever a preferred server id is set, in memory or in the cache
\* file, the performance map next to it holds an entry for that id.
C31_PreferredWasBenchmarked ==
    /\ preferred_server_id # NoServer
       => Benchmarked(server_test_results, preferred_server_id)
    /\ (best_server_cache_file.exists /\ best_server_cache_file.server_id # NoServer)
       => Benchmarked(best_server_cache_file.test_results, best_server_cache_file.server_id)

Unparsable(file) == ~file.exists \/ file.content # "object"

====
